---- MODULE Spec2Model ----
(***************************************************************************)
(* Teststar: the assessment scoring and progress analytics engine.         *)
(*   - submitTest (src/App.tsx) grades a test into a Report,               *)
(*   - updateGoalProgress (src/services/goalService.ts) recomputes goals,  *)
(*   - checkAllBadges (src/services/badgeService.ts) evaluates the badge   *)
(*     catalog,                                                            *)
(*   - saveReport / handleDeleteReport / addGoal / deleteGoal              *)
(*     (src/App.tsx) keep the stored history, goals and profile.           *)
(*                                                                         *)
(* Time.  A Date is an integer number of ticks of the local clock since    *)
(* 2023-01-01T00:00, a Sunday; one day is TicksPerDay ticks.  An ISO date  *)
(* string is the tick it denotes (toISOString / new Date(str) round-trip   *)
(* exactly in JavaScript).  The local zone keeps daylight saving time as   *)
(* America/New_York does in 2023: the order of two instants is the order   *)
(* of their ticks, and the number a Date stands for (getTime, the value    *)
(* setHours returns) is given for the local midnights, in hours.           *)
(*                                                                         *)
(* Numbers.  Scores and goal values are JavaScript numbers; the model      *)
(* keeps them as exact rationals [n, d] in lowest terms, so IEEE rounding  *)
(* of a quotient is not modelled.                                          *)
(*                                                                         *)
(* Strings.  A subject is a sequence of one-character strings so that      *)
(* toLowerCase and includes are computed, not assumed.                     *)
(***************************************************************************)
EXTENDS Integers, Sequences, FiniteSets, TLC

VARIABLES
    now,            \* the wall clock (what new Date() / Date.now() return)
    currentView,    \* App state: currentView
    testResult,     \* App state: testResult (the graded Report, or None)
    reports,        \* App state: reports (newest first)
    goals,          \* App state: goals (newest first)
    badges,         \* App state: userProfile.badges
    currentTest,    \* App state: currentTest (its question list), or None
    testAnswers,    \* App state: testAnswers
    feedbackPref,   \* App state: userProfile.feedbackPreference
    isLoading,      \* App state: isLoading
    grading         \* submitTest in flight: its locals and the per-answer callbacks

vars == <<now, currentView, testResult, reports, goals, badges, currentTest,
          testAnswers, feedbackPref, isLoading, grading>>

\* null: a nullable value is the empty sequence or the one-element sequence <<v>>
None == <<>>

--------------------------------------------------------------------------
(* Bounds of the model *)

TicksPerDay == 2
MaxReports == 3
MaxGoals == 1
MaxGoalHistory == 2
HorizonDays == 3

--------------------------------------------------------------------------
(* Exact rational arithmetic for JavaScript numbers *)

Abs(x) == IF x < 0 THEN -x ELSE x

RECURSIVE GCD(_, _)
GCD(a, b) == IF b = 0 THEN a ELSE GCD(b, a % b)

Rat(n, d) ==
    LET g == GCD(Abs(n), d)
    IN  [n |-> n \div g, d |-> d \div g]

RatOfInt(i) == [n |-> i, d |-> 1]
RatAdd(a, b) == Rat(a.n * b.d + b.n * a.d, a.d * b.d)
RatSub(a, b) == Rat(a.n * b.d - b.n * a.d, a.d * b.d)
RatDivInt(a, k) == Rat(a.n, a.d * k)
RatLE(a, b) == a.n * b.d <= b.n * a.d
RatLT(a, b) == a.n * b.d < b.n * a.d
RatMax(a, b) == IF RatLE(a, b) THEN b ELSE a
Zero == RatOfInt(0)

--------------------------------------------------------------------------
(* Strings: String.prototype.toLowerCase and String.prototype.includes *)

LowerOf == ("A" :> "a") @@ ("M" :> "m") @@ ("S" :> "s") @@ ("H" :> "h")

\* a toLowerCase that leaves the string as it is
toLowerCaseIdentity(s) == s

toLowerCase(s) ==
    [i \in DOMAIN s |-> IF s[i] \in DOMAIN LowerOf THEN LowerOf[s[i]] ELSE s[i]]

includes(s, sub) ==
    \E i \in 0..(Len(s) - Len(sub)) : SubSeq(s, i + 1, i + Len(sub)) = sub

strAny == <<"A", "n", "y">>
strMath == <<"M", "a", "t", "h">>
strMaths == <<"m", "a", "t", "h", "s">>
strScience == <<"S", "c", "i", "e", "n", "c", "e">>

--------------------------------------------------------------------------
(* Dates: the local calendar of 2023 *)

MonthLengths == <<31, 28, 31, 30, 31, 30, 31, 31, 30, 31, 30, 31>>

\* Day number (0 = 1 January) of the first day of month m; m = 13 is the
\* first day of the next year.
RECURSIVE daysBeforeMonth(_)
daysBeforeMonth(m) == IF m <= 1 THEN 0 ELSE daysBeforeMonth(m - 1) + MonthLengths[m - 1]

MonthStartTable == [m \in 1..13 |-> daysBeforeMonth(m)]
MonthStartDay(m) == MonthStartTable[m]

DayNumber(month, dayOfMonth) == MonthStartDay(month) + dayOfMonth - 1

dayOf(t) == t \div TicksPerDay
timeOfDay(t) == t % TicksPerDay

\* Date.prototype.setHours(0, 0, 0, 0)
setHours0(t) == dayOf(t) * TicksPerDay

\* Date.prototype.getDay(): 0 is Sunday; day 0 of the calendar is a Sunday
getDay(t) == dayOf(t) % 7

\* Date.prototype.getMonth(), counted from 1 here
MonthOfDay ==
    [d \in 0..(MonthStartDay(13) - 1) |->
        CHOOSE m \in 1..12 : MonthStartDay(m) <= d /\ d < MonthStartDay(m + 1)]

getMonth(t) == MonthOfDay[dayOf(t)]

\* Date.prototype.getDate()
getDate(t) == dayOf(t) - MonthStartDay(getMonth(t)) + 1

\* Date.prototype.setDate(n): day n of the date's month, rolling over into
\* the neighbouring months when n is outside it; the time of day is kept
setDate(t, n) == (MonthStartDay(getMonth(t)) + n - 1) * TicksPerDay + timeOfDay(t)

\* Date.prototype.setMonth(m): the same day of month in month m; a day past
\* the end of month m spills into the month after
setMonth(t, m) == (MonthStartDay(m) + getDate(t) - 1) * TicksPerDay + timeOfDay(t)

\* Daylight saving time: the local clock is put forward by one hour at
\* 02:00 on 12 March and back at 02:00 on 5 November, so the midnights from
\* 13 March to 5 November come one hour earlier than the standard ones
HoursPerDay == 24
DstFirstDay == DayNumber(3, 12)
DstLastDay == DayNumber(11, 5)

inDaylightTime(day) == day > DstFirstDay /\ day <= DstLastDay

\* The value of Date.prototype.setHours(0, 0, 0, 0): the timestamp of the
\* local midnight of the date, in hours since the midnight of 1 January
midnightTimestamp(t) ==
    dayOf(t) * HoursPerDay - (IF inDaylightTime(dayOf(t)) THEN 1 ELSE 0)

\* The run starts one tick into FirstDay and ends with the last tick of
\* HorizonDays days
FirstDay == DayNumber(4, 29)            \* Saturday 29 April 2023
FirstTick == FirstDay * TicksPerDay + 1
LastTick == (FirstDay + HorizonDays) * TicksPerDay - 1

--------------------------------------------------------------------------
(* src/services/goalService.ts *)

Completion == "completion"
Improvement == "improvement"
Week == "week"
Month == "month"
Active == "active"
Completed == "completed"

getStartDate(timeframe, startDateStr) ==
    LET date == setHours0(startDateStr)
    IN  IF timeframe = Week
        THEN setDate(date, getDate(date) - getDay(date))
        ELSE DayNumber(getMonth(date), 1) * TicksPerDay

getEndDate(timeframe, startDate) ==
    IF timeframe = Week
    THEN setDate(startDate, getDate(startDate) + 7)
    ELSE setMonth(startDate, getMonth(startDate) + 1)

\* a window anchored to the time of the call instead of the goal's startDate
timeframeStartDateRolling(goal, nowT) == getStartDate(goal.timeframe, nowT)

\* The window updateGoalProgress evaluates a goal against when called at nowT
timeframeStartDate(goal, nowT) == getStartDate(goal.timeframe, goal.startDate)

timeframeEndDate(goal, nowT) ==
    getEndDate(goal.timeframe, timeframeStartDate(goal, nowT))

subjectMatch(goal, r) ==
    \/ toLowerCase(goal.subject) = toLowerCase(strAny)
    \/ includes(toLowerCase(r.subject), toLowerCase(goal.subject))

\* Array.prototype.sort by date, ascending (insertion into a sorted prefix)
RECURSIVE sortByDate(_)
sortByDate(rs) ==
    IF Len(rs) <= 1 THEN rs
    ELSE LET rest == sortByDate(Tail(rs))
             x == Head(rs)
             before == SelectSeq(rest, LAMBDA y : y.date < x.date)
             after == SelectSeq(rest, LAMBDA y : ~(y.date < x.date))
         IN  before \o <<x>> \o after

RECURSIVE sumScores(_)
sumScores(arr) == IF arr = <<>> THEN Zero ELSE RatAdd(Head(arr).score, sumScores(Tail(arr)))

calculateAverage(arr) ==
    IF Len(arr) > 0 THEN RatDivInt(sumScores(arr), Len(arr)) ELSE Zero

\* completionValue with the window closed at its end
completionValueInclusiveEnd(goal, rs, nowT) ==
    LET relevantReports == SelectSeq(rs, LAMBDA r :
            /\ subjectMatch(goal, r)
            /\ r.date >= timeframeStartDate(goal, nowT)
            /\ r.date <= timeframeEndDate(goal, nowT))
    IN  RatOfInt(Len(relevantReports))

\* completionValue counting only the reports dated from goal.startDate on
completionValueFromStartDate(goal, rs, nowT) ==
    LET relevantReports == SelectSeq(rs, LAMBDA r :
            /\ subjectMatch(goal, r)
            /\ r.date >= goal.startDate
            /\ r.date < timeframeEndDate(goal, nowT))
    IN  RatOfInt(Len(relevantReports))

completionValue(goal, rs, nowT) ==
    LET relevantReports == SelectSeq(rs, LAMBDA r :
            /\ subjectMatch(goal, r)
            /\ r.date >= timeframeStartDate(goal, nowT)
            /\ r.date < timeframeEndDate(goal, nowT))
    IN  RatOfInt(Len(relevantReports))

\* lines 57-59
subjectReports(goal, rs) ==
    sortByDate(SelectSeq(rs, LAMBDA r : subjectMatch(goal, r)))

\* line 61
baselineReports(goal, rs) ==
    SelectSeq(subjectReports(goal, rs), LAMBDA r : r.date < goal.startDate)

\* lines 62-65
progressReports(goal, rs, nowT) ==
    SelectSeq(subjectReports(goal, rs), LAMBDA r :
        /\ r.date >= timeframeStartDate(goal, nowT)
        /\ r.date < timeframeEndDate(goal, nowT))

improvementValue(goal, rs, nowT) ==
    LET progress == progressReports(goal, rs, nowT)
        baselineScore == calculateAverage(baselineReports(goal, rs))
        currentAvgScore == calculateAverage(progress)
    IN  IF Len(progress) > 0
        THEN RatSub(currentAvgScore, baselineScore)
        ELSE Zero

\* no clamp at all
clampValueMissing(currentValue) == currentValue

\* Math.max(0, currentValue)
clampValue(currentValue) == RatMax(Zero, currentValue)

\* the window counted as over during its last day
expiredOnLastDay(goal, nowT) ==
    nowT > timeframeEndDate(goal, nowT) - TicksPerDay /\ goal.status = Active

\* the window counted as over from its last instant on
expiredAtWindowEnd(goal, nowT) ==
    nowT >= timeframeEndDate(goal, nowT) /\ goal.status = Active

\* line 42
expired(goal, nowT) ==
    nowT > timeframeEndDate(goal, nowT) /\ goal.status = Active

\* the target compared with the stored value instead of the recomputed one
isCompletedByStoredValue(goal, currentValue) ==
    RatLE(RatOfInt(goal.targetValue), goal.currentValue)

\* line 79
isCompleted(goal, currentValue) ==
    RatLE(RatOfInt(goal.targetValue), currentValue)

\* updateGoal without the early return for a completed goal
updateGoalRecomputesCompleted(goal, rs, nowT) ==
    IF expired(goal, nowT)
    THEN [goal EXCEPT !.status = Completed]
    ELSE LET currentValue ==
                 IF goal.type = Completion THEN completionValue(goal, rs, nowT)
                 ELSE IF goal.type = Improvement THEN improvementValue(goal, rs, nowT)
                 ELSE Zero
         IN  [goal EXCEPT !.currentValue = clampValue(currentValue),
                          !.status = IF isCompleted(goal, currentValue)
                                     THEN Completed ELSE Active]

\* updateGoal recomputing the value of a goal it completes by expiry
updateGoalExpiryRecomputes(goal, rs, nowT) ==
    IF goal.status = Completed THEN goal
    ELSE LET currentValue ==
                 IF goal.type = Completion THEN completionValue(goal, rs, nowT)
                 ELSE IF goal.type = Improvement THEN improvementValue(goal, rs, nowT)
                 ELSE Zero
         IN  [goal EXCEPT !.currentValue = clampValue(currentValue),
                          !.status = IF expired(goal, nowT) \/ isCompleted(goal, currentValue)
                                     THEN Completed ELSE Active]

\* The body of goals.map(goal => ...) in updateGoalProgress
updateGoal(goal, rs, nowT) ==
    IF goal.status = Completed THEN goal
    ELSE IF expired(goal, nowT)
    THEN [goal EXCEPT !.status = Completed]
    ELSE LET currentValue ==
                 IF goal.type = Completion THEN completionValue(goal, rs, nowT)
                 ELSE IF goal.type = Improvement THEN improvementValue(goal, rs, nowT)
                 ELSE Zero
         IN  [goal EXCEPT !.currentValue = clampValue(currentValue),
                          !.status = IF isCompleted(goal, currentValue)
                                     THEN Completed ELSE Active]

\* updateGoalProgress listing the active goals before the completed ones
updateGoalProgressActiveFirst(gs, rs, nowT) ==
    LET out == [i \in DOMAIN gs |-> updateGoal(gs[i], rs, nowT)]
    IN  SelectSeq(out, LAMBDA g : g.status = Active)
            \o SelectSeq(out, LAMBDA g : g.status # Active)

updateGoalProgress(gs, rs, nowT) ==
    [i \in DOMAIN gs |-> updateGoal(gs[i], rs, nowT)]

--------------------------------------------------------------------------
(* src/services/badgeService.ts, with the Set and Array operations it and  *)
(* submitTest use                                                          *)

\* dedupe that keeps every element
dedupeKeepsAll(list) == list

\* [...new Set(list)]: the distinct elements in first-occurrence order
RECURSIVE dedupe(_)
dedupe(list) ==
    IF list = <<>> THEN <<>>
    ELSE LET front == dedupe(SubSeq(list, 1, Len(list) - 1))
             last == list[Len(list)]
         IN  IF \E i \in DOMAIN front : front[i] = last THEN front ELSE Append(front, last)

\* a sort that leaves the list as it is
sortedSeqUnsorted(list) == list

\* Array.prototype.sort((a, b) => a - b) on numbers: ascending (insertion
\* of the last element into the sorted front)
RECURSIVE sortedSeq(_)
sortedSeq(list) ==
    IF list = <<>> THEN <<>>
    ELSE LET front == sortedSeq(SubSeq(list, 1, Len(list) - 1))
             x == list[Len(list)]
             before == SelectSeq(front, LAMBDA y : y <= x)
             after == SelectSeq(front, LAMBDA y : y > x)
         IN  before \o <<x>> \o after

\* line 27: the distinct local midnights of the reports, ascending
uniqueDayTimestamps(rs) ==
    sortedSeq(dedupe([i \in DOMAIN rs |-> midnightTimestamp(rs[i].date)]))

\* line 33, in hours
dayInMillis == HoursPerDay

\* streakLoop that keeps counting across a gap
RECURSIVE streakLoopNoReset(_, _, _, _)
streakLoopNoReset(days, i, maxStreak, currentStreak) ==
    IF i > Len(days)
    THEN IF maxStreak >= currentStreak THEN maxStreak ELSE currentStreak
    ELSE streakLoopNoReset(days, i + 1, maxStreak, currentStreak + 1)

\* The for loop over uniqueDayTimestamps, from index i with the two counters
RECURSIVE streakLoop(_, _, _, _)
streakLoop(days, i, maxStreak, currentStreak) ==
    IF i > Len(days)
    THEN IF maxStreak >= currentStreak THEN maxStreak ELSE currentStreak
    ELSE LET diff == days[i] - days[i - 1]
         IN  IF diff = dayInMillis
             THEN streakLoop(days, i + 1, maxStreak, currentStreak + 1)
             ELSE IF diff > dayInMillis
             THEN streakLoop(days, i + 1,
                             IF maxStreak >= currentStreak THEN maxStreak ELSE currentStreak,
                             1)
             ELSE streakLoop(days, i + 1, maxStreak, currentStreak)

\* The loop's currentStreak from index i on: the run the last day is in
RECURSIVE currentStreakAfter(_, _, _)
currentStreakAfter(days, i, currentStreak) ==
    IF i > Len(days) THEN currentStreak
    ELSE LET diff == days[i] - days[i - 1]
         IN  IF diff = dayInMillis THEN currentStreakAfter(days, i + 1, currentStreak + 1)
             ELSE IF diff > dayInMillis THEN currentStreakAfter(days, i + 1, 1)
             ELSE currentStreakAfter(days, i + 1, currentStreak)

\* maxStreak taken from the last run alone
lastStreakOf(days) == currentStreakAfter(days, 2, 1)

\* lines 30-43: maxStreak after the loop and the statement that follows it
maxStreakOf(days) == streakLoop(days, 2, 0, 1)

checkAllBadges(rs) ==
    IF Len(rs) = 0 THEN {}
    ELSE LET days == uniqueDayTimestamps(rs)
             mathTests == SelectSeq(rs, LAMBDA r : includes(toLowerCase(r.subject), <<"m", "a", "t", "h">>))
             scienceTests == SelectSeq(rs, LAMBDA r :
                 includes(toLowerCase(r.subject), <<"s", "c", "i", "e", "n", "c", "e">>))
         IN  (IF Len(rs) >= 1 THEN {"first_test"} ELSE {})
             \cup (IF \E i \in DOMAIN rs : rs[i].score = RatOfInt(100)
                   THEN {"perfect_score"} ELSE {})
             \cup (IF Len(days) >= 5 /\ maxStreakOf(days) >= 5
                   THEN {"streak_5_day"} ELSE {})
             \cup (IF Len(mathTests) >= 3 THEN {"math_whiz"} ELSE {})
             \cup (IF Len(scienceTests) >= 3 THEN {"science_genius"} ELSE {})


--------------------------------------------------------------------------
(* src/App.tsx: the grading engine (submitTest).                           *)
(* Questions and answers are indexed from 1 here (from 0 in the source).   *)
(* An optional number is None or <<n>>.  A solution is a record: kind is   *)
(* "undefined", "modelAnswer" (the question's modelAnswer text),           *)
(* "placeholder" (the catch branch's text) or "explanation" (the text      *)
(* generateSolution returned for the request of answer `of`).              *)

NumOptions == 4
MaxQuestions == 2
MaxMarks == 2

Topics == {"T1", "T2"}
CorrectChoices == {2}

solUndefined == [kind |-> "undefined", of |-> 0]
solModelAnswer == [kind |-> "modelAnswer", of |-> 0]
solPlaceholder == [kind |-> "placeholder", of |-> 0]
solExplanation(i) == [kind |-> "explanation", of |-> i]

\* The questions the generation service may return: an MCQ carries its
\* options and no modelAnswer, a SHORT or LONG question carries a
\* modelAnswer only.  testSchema requires questionText, questionType, marks
\* and topic, and generateTestQuestions validates the options of an MCQ
\* only: correctOptionIndex is optional and may be missing from an MCQ
Questions ==
    [questionType : {"MCQ"}, marks : 1..MaxMarks, topic : Topics,
     correctOptionIndex : {<<c>> : c \in CorrectChoices} \cup {None},
     hasOptions : {TRUE}, modelAnswer : {solUndefined}]
    \cup
    [questionType : {"SHORT", "LONG"}, marks : 1..MaxMarks, topic : Topics,
     correctOptionIndex : {None}, hasOptions : {FALSE},
     modelAnswer : {solModelAnswer}]

SeqsUpTo(S, n) == UNION {[1..k -> S] : k \in 0..n}

\* CreateTestView / handleGenerateRandomQuiz: one blank answer per question
blankAnswers(n) ==
    [i \in 1..n |-> [questionIndex |-> i, selectedOptionIndex |-> None, writtenAnswer |-> None]]

idleGrading ==
    [phase |-> "idle", correctCount |-> 0, totalMcqMarks |-> 0, marksScored |-> 0,
     totalMarks |-> 0, slots |-> <<>>]

RECURSIVE sumMarks(_)
sumMarks(qs) == IF qs = <<>> THEN 0 ELSE Head(qs).marks + sumMarks(Tail(qs))

\* The async callback of testAnswers.map for answer `ans` at `index`, run
\* to its first await (or to its end): req is "none" when no explanation is
\* requested, "pending" while generateSolution is awaited; threw is TRUE
\* when the callback's promise is rejected
answerSlot(qs, ans, index, pref) ==
    IF index > Len(qs)
    THEN \* question is undefined: reading question.modelAnswer throws
         [req |-> "none", threw |-> TRUE, isCorrect |-> "undefined", solution |-> solUndefined]
    ELSE LET question == qs[index]
         IN  IF question.questionType = "MCQ"
             THEN IF ans.selectedOptionIndex = question.correctOptionIndex
                  THEN [req |-> "none", threw |-> FALSE, isCorrect |-> "true",
                        solution |-> question.modelAnswer]
                  ELSE IF question.hasOptions /\ ans.selectedOptionIndex # None
                  THEN IF pref = "full"
                       THEN [req |-> "pending", threw |-> FALSE, isCorrect |-> "false",
                             solution |-> question.modelAnswer]
                       ELSE [req |-> "none", threw |-> FALSE, isCorrect |-> "false",
                             solution |-> solUndefined]
                  ELSE [req |-> "none", threw |-> FALSE, isCorrect |-> "false",
                        solution |-> question.modelAnswer]
             ELSE [req |-> "none", threw |-> FALSE, isCorrect |-> "undefined",
                   solution |-> question.modelAnswer]

\* countersAfter without the questionType test: every question is counted
RECURSIVE countersAfterAllTypes(_, _, _)
countersAfterAllTypes(qs, answers, k) ==
    IF k = 0 THEN [correctCount |-> 0, totalMcqMarks |-> 0, marksScored |-> 0]
    ELSE LET c == countersAfterAllTypes(qs, answers, k - 1)
         IN  IF k > Len(qs) THEN c
             ELSE LET isCorrect == answers[k].selectedOptionIndex = qs[k].correctOptionIndex
                  IN  [correctCount |-> c.correctCount + (IF isCorrect THEN 1 ELSE 0),
                       totalMcqMarks |-> c.totalMcqMarks + qs[k].marks,
                       marksScored |-> c.marksScored + (IF isCorrect THEN qs[k].marks ELSE 0)]

\* The shared counters after the callbacks of answers 1..k have run their
\* synchronous part, in index order
RECURSIVE countersAfter(_, _, _)
countersAfter(qs, answers, k) ==
    IF k = 0 THEN [correctCount |-> 0, totalMcqMarks |-> 0, marksScored |-> 0]
    ELSE LET c == countersAfter(qs, answers, k - 1)
         IN  IF k > Len(qs) \/ qs[k].questionType # "MCQ" THEN c
             ELSE LET isCorrect == answers[k].selectedOptionIndex = qs[k].correctOptionIndex
                  IN  [correctCount |-> c.correctCount + (IF isCorrect THEN 1 ELSE 0),
                       totalMcqMarks |-> c.totalMcqMarks + qs[k].marks,
                       marksScored |-> c.marksScored + (IF isCorrect THEN qs[k].marks ELSE 0)]

\* line 1797
scoreOf(marksScored, totalMcqMarks) ==
    IF totalMcqMarks > 0 THEN Rat(marksScored * 100, totalMcqMarks) ELSE Zero

\* line 1798
weakAreasOf(qs, processedAnswers) ==
    LET wrong == SelectSeq(processedAnswers, LAMBDA a : a.isCorrect = "false")
    IN  dedupe([i \in DOMAIN wrong |-> qs[wrong[i].questionIndex].topic])

\* slotResolved writing the explanation that arrived last for any answer,
\* as a variable shared by the callbacks would hold it
slotResolvedShared(slot, index) ==
    [slot EXCEPT !.req = "ok", !.solution = solExplanation(Len(testAnswers))]

\* lines 1785-1788: the callback's continuation when generateSolution
\* resolves, and when it rejects
slotResolved(slot, index) ==
    [slot EXCEPT !.req = "ok", !.solution = solExplanation(index)]

\* slotRejected without the try/catch: the callback's promise rejects
slotRejectedUncaught(slot, index) ==
    [slot EXCEPT !.req = "failed", !.threw = TRUE]

slotRejected(slot, index) ==
    [slot EXCEPT !.req = "failed", !.solution = solPlaceholder]

\* TestTakerView.handleAnswerChange on question `index`
handleAnswerChange(index, optionIndex, writtenAnswer) ==
    /\ currentTest # None
    /\ grading.phase = "idle"
    /\ index \in DOMAIN testAnswers
    /\ testAnswers' = [testAnswers EXCEPT ![index] =
            [@ EXCEPT !.selectedOptionIndex = optionIndex, !.writtenAnswer = writtenAnswer]]
    /\ testAnswers' # testAnswers
    /\ UNCHANGED <<now, currentView, testResult, reports, goals, badges, currentTest,
                   feedbackPref, isLoading, grading>>

\* submitTest up to "await Promise.all": every callback has run its
\* synchronous part, the explanation requests are in flight
submitTest ==
    /\ currentTest # None
    /\ grading.phase = "idle"
    /\ LET qs == currentTest[1]
           c == countersAfter(qs, testAnswers, Len(testAnswers))
       IN  grading' = [phase |-> "awaiting",
                       correctCount |-> c.correctCount,
                       totalMcqMarks |-> c.totalMcqMarks,
                       marksScored |-> c.marksScored,
                       totalMarks |-> sumMarks(qs),
                       slots |-> [i \in DOMAIN testAnswers |->
                                    answerSlot(qs, testAnswers[i], i, feedbackPref)]]
    /\ isLoading' = TRUE
    /\ UNCHANGED <<now, currentView, testResult, reports, goals, badges, currentTest,
                   testAnswers, feedbackPref>>

\* GeminiService.generateSolution for answer `index` resolves
solutionResolves(index) ==
    /\ grading.phase = "awaiting"
    /\ index \in DOMAIN grading.slots
    /\ grading.slots[index].req = "pending"
    /\ grading' = [grading EXCEPT !.slots[index] = slotResolved(@, index)]
    /\ UNCHANGED <<now, currentView, testResult, reports, goals, badges, currentTest,
                   testAnswers, feedbackPref, isLoading>>

\* GeminiService.generateSolution for answer `index` rejects
solutionRejects(index) ==
    /\ grading.phase = "awaiting"
    /\ index \in DOMAIN grading.slots
    /\ grading.slots[index].req = "pending"
    /\ grading' = [grading EXCEPT !.slots[index] = slotRejected(@, index)]
    /\ UNCHANGED <<now, currentView, testResult, reports, goals, badges, currentTest,
                   testAnswers, feedbackPref, isLoading>>

\* a combinator that resolves with the first callback to finish
promiseAnyFulfilled(slots) ==
    slots = <<>> \/ \E i \in DOMAIN slots : slots[i].req # "pending" /\ ~slots[i].threw

\* Promise.all is fulfilled: every callback has returned
promiseAllFulfilled(slots) ==
    \A i \in DOMAIN slots : slots[i].req # "pending" /\ ~slots[i].threw

\* Promise.all resolves: the rest of submitTest builds the Report
submitTestCompletes ==
    /\ grading.phase = "awaiting"
    /\ promiseAllFulfilled(grading.slots)
    /\ LET qs == currentTest[1]
           processedAnswers ==
               [i \in DOMAIN testAnswers |->
                   [questionIndex |-> testAnswers[i].questionIndex,
                    selectedOptionIndex |-> testAnswers[i].selectedOptionIndex,
                    writtenAnswer |-> testAnswers[i].writtenAnswer,
                    isCorrect |-> grading.slots[i].isCorrect,
                    solution |-> grading.slots[i].solution]]
       IN  testResult' = <<[id |-> now,
                            subject |-> strMath,
                            score |-> scoreOf(grading.marksScored, grading.totalMcqMarks),
                            totalMarks |-> grading.totalMarks,
                            marksScored |-> grading.marksScored,
                            totalQuestions |-> Len(qs),
                            correctAnswers |-> grading.correctCount,
                            date |-> now,
                            weakAreas |-> weakAreasOf(qs, processedAnswers),
                            answers |-> processedAnswers,
                            feedbackPreference |-> feedbackPref]>>
    /\ grading' = [grading EXCEPT !.phase = "done"]
    /\ currentView' = "results"
    /\ isLoading' = FALSE
    /\ UNCHANGED <<now, reports, goals, badges, currentTest, testAnswers,
                   feedbackPref>>

\* Promise.all rejects because a callback threw: submitTest's own promise
\* rejects at the await, nothing after it runs
submitTestRejects ==
    /\ grading.phase = "awaiting"
    /\ \E i \in DOMAIN grading.slots : grading.slots[i].threw
    /\ grading' = [grading EXCEPT !.phase = "aborted"]
    /\ UNCHANGED <<now, currentView, testResult, reports, goals, badges, currentTest,
                   testAnswers, feedbackPref, isLoading>>

\* A test has been generated and is being taken by a user with either
\* feedback preference
InitGrade ==
    /\ now = FirstTick
    /\ currentView = "test"
    /\ testResult = None
    /\ reports = <<>>
    /\ goals = <<>>
    /\ badges = {}
    /\ \E qs \in SeqsUpTo(Questions, MaxQuestions) :
          /\ currentTest = <<qs>>
          /\ testAnswers = blankAnswers(Len(qs))
    /\ feedbackPref \in {"full", "summary"}
    /\ isLoading = FALSE
    /\ grading = idleGrading

answerInputs ==
    {<<i, <<o>>, None>> : i \in 1..MaxQuestions, o \in 0..(NumOptions - 1)}
    \cup {<<i, None, <<"text">>>> : i \in 1..MaxQuestions}

NextGrade ==
    \/ \E in \in answerInputs :
          /\ in[1] \in DOMAIN testAnswers
          /\ (currentTest[1][in[1]].questionType = "MCQ") = (in[2] # None)
          /\ handleAnswerChange(in[1], in[2], in[3])
    \/ submitTest
    \/ \E i \in 1..MaxQuestions : solutionResolves(i)
    \/ \E i \in 1..MaxQuestions : solutionRejects(i)
    \/ submitTestCompletes

SpecGrade == InitGrade /\ [][NextGrade]_vars

\* The continuation of an await runs once its promise is settled: the event
\* loop does not leave a ready continuation waiting for ever.  Whether and
\* when an explanation request settles is the network's affair.
SpecGradeLive == InitGrade /\ [][NextGrade]_vars /\ WF_vars(submitTestCompletes)

\* submitTest applied to an answer list of any length, equal to the
\* question list's or not
InitGradeAny ==
    /\ now = FirstTick
    /\ currentView = "test"
    /\ testResult = None
    /\ reports = <<>>
    /\ goals = <<>>
    /\ badges = {}
    /\ \E qs \in SeqsUpTo(Questions, MaxQuestions), n \in 0..(MaxQuestions + 1) :
          /\ currentTest = <<qs>>
          /\ testAnswers = blankAnswers(n)
    /\ feedbackPref \in {"full", "summary"}
    /\ isLoading = FALSE
    /\ grading = idleGrading

NextGradeAny ==
    \/ \E in \in answerInputs :
          /\ in[1] \in DOMAIN testAnswers
          /\ in[1] \in DOMAIN currentTest[1]
          /\ (currentTest[1][in[1]].questionType = "MCQ") = (in[2] # None)
          /\ handleAnswerChange(in[1], in[2], in[3])
    \/ submitTest
    \/ \E i \in 1..MaxQuestions : solutionResolves(i)
    \/ \E i \in 1..MaxQuestions : solutionRejects(i)
    \/ submitTestCompletes
    \/ submitTestRejects

SpecGradeAny == InitGradeAny /\ [][NextGradeAny]_vars

--------------------------------------------------------------------------
(* Properties of the grading engine *)

graded == grading.phase = "done"
theTest == currentTest[1]
theReport == testResult[1]

isMcq(i) == theTest[i].questionType = "MCQ"
answeredCorrectly(i) ==
    /\ isMcq(i)
    /\ i \in DOMAIN testAnswers
    /\ testAnswers[i].selectedOptionIndex = theTest[i].correctOptionIndex
answeredIncorrectly(i) == isMcq(i) /\ ~answeredCorrectly(i)

RECURSIVE sumOver(_, _)
sumOver(S, f) ==
    IF S = {} THEN 0
    ELSE LET x == CHOOSE y \in S : TRUE IN f[x] + sumOver(S \ {x}, f)

marksOf == [i \in DOMAIN theTest |-> theTest[i].marks]
totalGradableMarks == sumOver({i \in DOMAIN theTest : isMcq(i)}, marksOf)
marksEarned == sumOver({i \in DOMAIN theTest : answeredCorrectly(i)}, marksOf)

noDuplicates(list) == \A i, j \in DOMAIN list : list[i] = list[j] => i = j
labelsOf(list) == {list[i] : i \in DOMAIN list}

\* C1: every Report has 0 <= score <= 100 and
\* score * totalGradableMarks = 100 * marksEarned, the two sums taken over
\* the multiple-choice questions only.
C1_ScoreFromMcqMarks ==
    graded =>
        /\ RatLE(Zero, theReport.score)
        /\ RatLE(theReport.score, RatOfInt(100))
        /\ theReport.score.n * totalGradableMarks = 100 * marksEarned * theReport.score.d

\* a graded test with a correct multiple-choice answer beside a free-text
\* question: the free-text marks are in totalMarks only
C1_Witness ==
    /\ graded
    /\ \E i \in DOMAIN theTest : answeredCorrectly(i)
    /\ \E i \in DOMAIN theTest : ~isMcq(i)
    /\ theReport.score = RatOfInt(100)
    /\ theReport.totalMarks > theReport.marksScored

\* C2: a test without any multiple-choice question is graded with score 100.
C2_NoMcqScores100 ==
    (graded /\ \A i \in DOMAIN theTest : ~isMcq(i)) => theReport.score = RatOfInt(100)

\* C6 as stated: weakAreas has no duplicate and holds no topic label that
\* belongs to a correctly answered or an ungraded question.
C6_NoLabelOfCorrectOrUngraded ==
    graded =>
        /\ noDuplicates(theReport.weakAreas)
        /\ \A i \in DOMAIN theTest :
              (answeredCorrectly(i) \/ ~isMcq(i))
                  => theTest[i].topic \notin labelsOf(theReport.weakAreas)

\* C6 as amended: weakAreas has no duplicate, and its labels are exactly the
\* topics of the incorrectly answered multiple-choice questions.
C6_WeakAreasAreIncorrectTopics ==
    graded =>
        /\ noDuplicates(theReport.weakAreas)
        /\ labelsOf(theReport.weakAreas) =
              {theTest[i].topic : i \in {j \in DOMAIN theTest : answeredIncorrectly(j)}}

\* two incorrectly answered questions share their topic, which is listed once
C6_Witness ==
    /\ graded
    /\ Len(theReport.weakAreas) = 1
    /\ \E i, j \in DOMAIN theTest :
          /\ i # j
          /\ answeredIncorrectly(i) /\ answeredIncorrectly(j)
          /\ theTest[i].topic = theTest[j].topic

C8_ExplanationFailureIsLocal ==
    /\ \A i \in DOMAIN grading.slots : ~grading.slots[i].threw
    /\ grading.phase # "aborted"
    /\ graded =>
          /\ theReport.marksScored = marksEarned
          /\ theReport.correctAnswers =
                Cardinality({i \in DOMAIN theTest : answeredCorrectly(i)})
          /\ theReport.score = (IF totalGradableMarks > 0
                                THEN Rat(100 * marksEarned, totalGradableMarks)
                                ELSE Zero)
          /\ labelsOf(theReport.weakAreas) =
                {theTest[i].topic : i \in {j \in DOMAIN theTest : answeredIncorrectly(j)}}
          /\ \A i \in DOMAIN grading.slots :
                /\ grading.slots[i].req = "failed"
                      => theReport.answers[i].solution = solPlaceholder
                /\ grading.slots[i].req = "ok"
                      => theReport.answers[i].solution = solExplanation(i)

\* a Report produced although one explanation request failed and another
\* succeeded
C8_Witness ==
    /\ graded
    /\ \E i, j \in DOMAIN grading.slots :
          grading.slots[i].req = "failed" /\ grading.slots[j].req = "ok"

reportProduced == testResult # None \/ currentView = "results"
requestsInFlight == {i \in DOMAIN grading.slots : grading.slots[i].req = "pending"}

\* C21: the Report is never produced while an explanation request of the
\* submission is unsettled, and a submission all of whose requests have
\* settled leads to the Report being produced with isLoading false.
C21_FanInBeforeReport ==
    /\ [](reportProduced =>
            /\ grading.phase = "done"
            /\ requestsInFlight = {}
            /\ testResult # None /\ currentView = "results")
    /\ (grading.phase = "awaiting" /\ requestsInFlight = {})
          ~> (reportProduced /\ ~isLoading)

\* a Report produced after two explanation requests were in flight, the
\* first of which failed
C21_Witness ==
    /\ graded
    /\ ~isLoading
    /\ Len(grading.slots) = 2
    /\ grading.slots[1].req = "failed"
    /\ grading.slots[2].req = "ok"
    /\ testResult[1].answers[2].solution = solExplanation(2)

expectedScore ==
    IF totalGradableMarks > 0 THEN Rat(100 * marksEarned, totalGradableMarks) ELSE Zero
expectedCorrect == Cardinality({i \in DOMAIN theTest : answeredCorrectly(i)})
expectedWeakTopics ==
    {theTest[i].topic : i \in {j \in DOMAIN theTest : answeredIncorrectly(j)}}

\* C22: in whatever order the explanation requests complete, the shared
\* counters hold the values the test and the answers determine from the
\* moment the requests are issued, the Report has the score, marksScored,
\* correctAnswers and weakAreas they determine, and the explanation
\* requested for answer i is written to answer i only.
C22_CompletionOrderIrrelevant ==
    /\ grading.phase # "idle" =>
          /\ grading.marksScored = marksEarned
          /\ grading.totalMcqMarks = totalGradableMarks
          /\ grading.correctCount = expectedCorrect
          /\ \A i \in DOMAIN grading.slots :
                /\ grading.slots[i].solution.kind = "explanation"
                      => grading.slots[i].solution.of = i /\ grading.slots[i].req = "ok"
                /\ grading.slots[i].req = "ok"
                      => grading.slots[i].solution = solExplanation(i)
    /\ graded =>
          /\ theReport.score = expectedScore
          /\ theReport.marksScored = marksEarned
          /\ theReport.correctAnswers = expectedCorrect
          /\ labelsOf(theReport.weakAreas) = expectedWeakTopics
          /\ noDuplicates(theReport.weakAreas)
          /\ \A i \in DOMAIN theReport.answers :
                theReport.answers[i].solution = grading.slots[i].solution

\* two requests in flight complete out of order: the request of answer 2
\* has resolved while that of answer 1 is pending, beside a correct answer
\* counted already
C22_Witness ==
    /\ grading.phase = "awaiting"
    /\ Len(grading.slots) = 2
    /\ grading.slots[1].req = "pending"
    /\ grading.slots[2].req = "ok"
    /\ grading.slots[2].solution = solExplanation(2)
    /\ grading.totalMcqMarks > 0

unanswered(i) == i \in DOMAIN testAnswers /\ testAnswers[i].selectedOptionIndex = None

\* C12: a multiple-choice question with no selected option is graded as
\* incorrect: isCorrect is false, its marks are in totalGradableMarks and
\* not in marksScored, and its topic is in weakAreas.
C12_UnansweredMcqIsIncorrect ==
    graded =>
        /\ \A i \in DOMAIN theTest :
              (isMcq(i) /\ unanswered(i)) =>
                  /\ theReport.answers[i].isCorrect = "false"
                  /\ theTest[i].topic \in labelsOf(theReport.weakAreas)
        /\ (\A i \in DOMAIN theTest : isMcq(i) /\ unanswered(i)) =>
              /\ theReport.marksScored = 0
              /\ theReport.correctAnswers = 0

\* The same for the multiple-choice questions that carry a
\* correctOptionIndex: the rule holds for them
C12_UnansweredMcqWithKeyIsIncorrect ==
    graded =>
        \A i \in DOMAIN theTest :
            (isMcq(i) /\ unanswered(i) /\ theTest[i].correctOptionIndex # None) =>
                /\ theReport.answers[i].isCorrect = "false"
                /\ theTest[i].topic \in labelsOf(theReport.weakAreas)
                /\ theReport.marksScored <= grading.totalMcqMarks - theTest[i].marks

\* C20: under 'summary' no explanation is requested and no answer of the
\* Report has a solution; under 'full' an explanation is requested only
\* for an incorrect multiple-choice answer; a solution is never anything
\* but the outcome of an explanation request.
C20_SolutionOnlyFromExplanation ==
    /\ \A i \in DOMAIN grading.slots :
          grading.slots[i].req # "none" =>
              /\ feedbackPref = "full"
              /\ i \in DOMAIN theTest /\ answeredIncorrectly(i)
    /\ graded =>
          \A i \in DOMAIN theReport.answers :
              /\ feedbackPref = "summary"
                    => theReport.answers[i].solution = solUndefined
              /\ theReport.answers[i].solution.kind
                    \in {"undefined", "explanation", "placeholder"}


--------------------------------------------------------------------------
(* src/App.tsx: the progress orchestrator.                                 *)
(* A stored Report is kept by the fields the goal and badge services and   *)
(* the orchestrator read: id, subject, score, date.  The views other than  *)
(* 'results' differ only in which handlers they offer and are one value,   *)
(* "dashboard".                                                            *)

Subjects == {strMath, strScience}
ScoreChoices == {RatOfInt(50), RatOfInt(100)}
GoalTypes == {Completion, Improvement}
TargetChoices == {2, 60}
Timeframes == {Week, Month}

hasReport(rs, id) == \E i \in DOMAIN rs : rs[i].id = id

\* storedBadges keeping the newly earned ids only
storedBadgesNewOnly(currentBadges, allEarnedBadges) ==
    LET newBadges == allEarnedBadges \ currentBadges
    IN  IF newBadges # {} THEN newBadges ELSE currentBadges

\* saveReport, lines 1859-1869: the badge list stored after a save
storedBadges(currentBadges, allEarnedBadges) ==
    LET newBadges == allEarnedBadges \ currentBadges
    IN  IF newBadges # {} THEN allEarnedBadges ELSE currentBadges

\* goalsAfterDelete with the goals evaluated against the remaining history
goalsAfterDeleteUpdated(gs, updatedReports, nowT) ==
    updateGoalProgress(gs, updatedReports, nowT)

\* handleDeleteReport's onConfirm: what becomes of the goals
goalsAfterDelete(gs, updatedReports, nowT) == gs

\* The passage of time
Tick ==
    /\ now < LastTick
    /\ now' = now + 1
    /\ UNCHANGED <<currentView, testResult, reports, goals, badges, currentTest,
                   testAnswers, feedbackPref, isLoading, grading>>

\* A test is taken and graded: submitTest stores the new Report in
\* testResult and shows the results view
TakeTest(subject, score) ==
    /\ currentView # "results"
    /\ testResult' = <<[id |-> now, subject |-> subject, score |-> score, date |-> now]>>
    /\ currentView' = "results"
    /\ UNCHANGED <<now, reports, goals, badges, currentTest, testAnswers,
                   feedbackPref, isLoading, grading>>

\* handleNavClick / "Take Another Test": leave the results view
NavClick ==
    /\ currentView = "results"
    /\ currentView' = "dashboard"
    /\ UNCHANGED <<now, testResult, reports, goals, badges, currentTest, testAnswers,
                   feedbackPref, isLoading, grading>>

\* saveReport without the test for a report already stored
saveReportOutcomeUnchecked(rs, gs, bs, result, nowT) ==
    LET updatedReports == <<result>> \o rs
    IN  [reports |-> updatedReports,
         goals |-> updateGoalProgress(gs, updatedReports, nowT),
         badges |-> storedBadges(bs, checkAllBadges(updatedReports))]

\* What saveReport stores for test result `result`: nothing new when a
\* report of that id is in the history already
saveReportOutcome(rs, gs, bs, result, nowT) ==
    IF hasReport(rs, result.id)
    THEN [reports |-> rs, goals |-> gs, badges |-> bs]
    ELSE LET updatedReports == <<result>> \o rs
         IN  [reports |-> updatedReports,
              goals |-> updateGoalProgress(gs, updatedReports, nowT),
              badges |-> storedBadges(bs, checkAllBadges(updatedReports))]

saveReport ==
    /\ currentView = "results"
    /\ testResult # None
    /\ LET out == saveReportOutcome(reports, goals, badges, testResult[1], now)
       IN  /\ reports' = out.reports
           /\ goals' = out.goals
           /\ badges' = out.badges
    /\ UNCHANGED <<now, currentView, testResult, currentTest, testAnswers,
                   feedbackPref, isLoading, grading>>

handleDeleteReport(reportId) ==
    /\ currentView # "results"
    /\ hasReport(reports, reportId)
    /\ LET updatedReports == SelectSeq(reports, LAMBDA r : r.id # reportId)
       IN  /\ reports' = updatedReports
           /\ goals' = goalsAfterDelete(goals, updatedReports, now)
    /\ UNCHANGED <<now, currentView, testResult, badges, currentTest, testAnswers,
                   feedbackPref, isLoading, grading>>

\* AddGoalModal offers 'Any' and the subjects of the stored reports
goalSubjects == {strAny} \cup {reports[i].subject : i \in DOMAIN reports}

addGoal(type, subject, targetValue, timeframe) ==
    /\ currentView # "results"
    /\ LET newGoal == [id |-> now, type |-> type, subject |-> subject,
                       targetValue |-> targetValue, currentValue |-> Zero,
                       timeframe |-> timeframe, startDate |-> now, status |-> Active]
           allGoals == <<newGoal>> \o goals
       IN  goals' = updateGoalProgress(allGoals, reports, now)
    /\ UNCHANGED <<now, currentView, testResult, reports, badges, currentTest,
                   testAnswers, feedbackPref, isLoading, grading>>

deleteGoal(goalId) ==
    /\ currentView # "results"
    /\ \E i \in DOMAIN goals : goals[i].id = goalId
    /\ goals' = SelectSeq(goals, LAMBDA g : g.id # goalId)
    /\ UNCHANGED <<now, currentView, testResult, reports, badges, currentTest,
                   testAnswers, feedbackPref, isLoading, grading>>

Init ==
    /\ now = FirstTick
    /\ currentView = "dashboard"
    /\ testResult = None
    /\ reports = <<>>
    /\ goals = <<>>
    /\ badges = {}
    /\ currentTest = None
    /\ testAnswers = <<>>
    /\ feedbackPref = "full"
    /\ isLoading = FALSE
    /\ grading = idleGrading

Next ==
    \/ Tick
    \/ \E subject \in Subjects, score \in ScoreChoices : TakeTest(subject, score)
    \/ NavClick
    \/ (Len(reports) < MaxGoalHistory /\ saveReport)
    \/ \E i \in DOMAIN reports : handleDeleteReport(reports[i].id)
    \/ \E type \in GoalTypes, subject \in goalSubjects, targetValue \in TargetChoices,
          timeframe \in Timeframes :
             Len(goals) < MaxGoals /\ addGoal(type, subject, targetValue, timeframe)
    \/ \E i \in DOMAIN goals : deleteGoal(goals[i].id)

Spec == Init /\ [][Next]_vars

\* The load effect of App: the application is opened again and reads the
\* profile, the reports and the goals it stored; the test result on screen
\* is gone
loadApp ==
    /\ currentView' = "dashboard"
    /\ testResult' = None
    /\ UNCHANGED <<now, reports, goals, badges, currentTest, testAnswers,
                   feedbackPref, isLoading, grading>>

\* The orchestrator over several openings of the application
NextSession ==
    \/ Next
    \/ loadApp

SpecSession == Init /\ [][NextSession]_vars

\* The orchestrator when no report is ever deleted
NextNoDelete ==
    \/ Tick
    \/ \E subject \in Subjects, score \in ScoreChoices : TakeTest(subject, score)
    \/ NavClick
    \/ (Len(reports) < MaxGoalHistory /\ saveReport)
    \/ \E type \in GoalTypes, subject \in goalSubjects, targetValue \in TargetChoices,
          timeframe \in Timeframes :
             Len(goals) < MaxGoals /\ addGoal(type, subject, targetValue, timeframe)
    \/ \E i \in DOMAIN goals : deleteGoal(goals[i].id)

SpecNoDelete == Init /\ [][NextNoDelete]_vars

\* The orchestrator without goals, over a longer history
NextBadges ==
    \/ Tick
    \/ \E subject \in Subjects, score \in ScoreChoices : TakeTest(subject, score)
    \/ NavClick
    \/ (Len(reports) < MaxReports /\ saveReport)
    \/ \E i \in DOMAIN reports : handleDeleteReport(reports[i].id)

SpecBadges == Init /\ [][NextBadges]_vars

\* The orchestrator with up to MaxGoalPair goals on Math tests, with small
\* targets, over PairDays days, when nothing is deleted but goals
MaxGoalPair == 2
MaxPairReports == 2
PairDays == 2

PairTargets == {1, 2}

PairTick ==
    /\ now < (FirstDay + PairDays) * TicksPerDay - 1
    /\ now' = now + 1
    /\ UNCHANGED <<currentView, testResult, reports, goals, badges, currentTest,
                   testAnswers, feedbackPref, isLoading, grading>>

NextGoalPair ==
    \/ PairTick
    \/ \E score \in ScoreChoices : TakeTest(strMath, score)
    \/ NavClick
    \/ (Len(reports) < MaxPairReports /\ saveReport)
    \/ \E type \in GoalTypes, targetValue \in PairTargets, timeframe \in Timeframes :
          Len(goals) < MaxGoalPair /\ addGoal(type, strMath, targetValue, timeframe)
    \/ \E i \in DOMAIN goals : deleteGoal(goals[i].id)

SpecGoalPair == Init /\ [][NextGoalPair]_vars

\* The orchestrator over the days from Tuesday 25 April 2023 into the
\* following week, with Math tests only and one goal, added on the
\* Wednesday: complete 3 Math tests this week
ScenarioDays == 6
MaxWeekReports == 4

ScenarioFirstTick == DayNumber(4, 25) * TicksPerDay + 1
ScenarioLastTick == (DayNumber(4, 25) + ScenarioDays) * TicksPerDay - 1

InitWeekGoal ==
    /\ now = ScenarioFirstTick
    /\ currentView = "dashboard"
    /\ testResult = None
    /\ reports = <<>>
    /\ goals = <<>>
    /\ badges = {}
    /\ currentTest = None
    /\ testAnswers = <<>>
    /\ feedbackPref = "full"
    /\ isLoading = FALSE
    /\ grading = idleGrading

ScenarioTick ==
    /\ now < ScenarioLastTick
    /\ now' = now + 1
    /\ UNCHANGED <<currentView, testResult, reports, goals, badges, currentTest,
                   testAnswers, feedbackPref, isLoading, grading>>

NextWeekGoal ==
    \/ ScenarioTick
    \/ TakeTest(strMath, RatOfInt(50))
    \/ NavClick
    \/ (Len(reports) < MaxWeekReports /\ saveReport)
    \/ (getDay(now) = 3 /\ Len(goals) < MaxGoals /\ addGoal(Completion, strMath, 3, Week))

SpecWeekGoal == InitWeekGoal /\ [][NextWeekGoal]_vars

\* The goal tracker applied to one active completion goal and a stored
\* history of up to MaxTrackedReports reports, at any time of the run.  The
\* subject of a test is free text: "Math" and "maths" are two subjects,
\* and a goal has the subject of a report or 'Any'.
MaxTrackedReports == 2

TrackedSubjects == {strMath, strMaths}

TrackedReports(nowT) ==
    {[id |-> t, subject |-> subject, score |-> RatOfInt(50), date |-> t] :
        t \in FirstTick..nowT, subject \in TrackedSubjects}

TrackedGoals(nowT) ==
    {[id |-> t, type |-> Completion, subject |-> subject, targetValue |-> targetValue,
      currentValue |-> Zero, timeframe |-> timeframe, startDate |-> t,
      status |-> Active] :
        t \in FirstTick..nowT, subject \in TrackedSubjects \cup {strAny},
        targetValue \in TargetChoices, timeframe \in Timeframes}

InitTracker ==
    /\ now \in FirstTick..LastTick
    /\ currentView = "dashboard"
    /\ testResult = None
    /\ \E rs \in SeqsUpTo(TrackedReports(now), MaxTrackedReports) :
          /\ \A i, j \in DOMAIN rs : rs[i].id = rs[j].id => i = j
          /\ reports = rs
    /\ \E goal \in TrackedGoals(now) : goals = <<goal>>
    /\ badges = {}
    /\ currentTest = None
    /\ testAnswers = <<>>
    /\ feedbackPref = "full"
    /\ isLoading = FALSE
    /\ grading = idleGrading

\* updateGoals(GoalService.updateGoalProgress(goals, reports))
evaluateGoals ==
    /\ goals' = updateGoalProgress(goals, reports, now)
    /\ UNCHANGED <<now, currentView, testResult, reports, badges, currentTest,
                   testAnswers, feedbackPref, isLoading, grading>>

NextTracker ==
    \/ Tick
    \/ evaluateGoals

SpecTracker == InitTracker /\ [][NextTracker]_vars

\* The achievement evaluator applied to histories in any order, as a stored
\* history may be.  A history holds at most one report per calendar day
\* here; the days are counted from 1 January 2023.
StreakDays == 8
OrderDays == 6
MaxOrderLen == 5

reportOn(day, subject, score) ==
    LET t == day * TicksPerDay + (day % TicksPerDay)
    IN  [date |-> t, subject |-> subject, score |-> score, id |-> t]

daysOf(rs) == {dayOf(rs[i].date) : i \in DOMAIN rs}

insertAt(list, pos, x) ==
    SubSeq(list, 1, pos - 1) \o <<x>> \o SubSeq(list, pos, Len(list))

\* checkAllBadges is called on the history with one more report, taken on a
\* day without one and stored at position pos
evaluateWith(pos, day, subject, score) ==
    /\ pos \in 1..(Len(reports) + 1)
    /\ day \notin daysOf(reports)
    /\ reports' = insertAt(reports, pos, reportOn(day, subject, score))
    /\ badges' = checkAllBadges(reports')
    /\ UNCHANGED <<now, currentView, testResult, goals, currentTest, testAnswers,
                   feedbackPref, isLoading, grading>>

\* Histories of Math reports on the first StreakDays days of January
NextStreak ==
    \E pos \in 1..StreakDays, day \in 0..(StreakDays - 1) :
        evaluateWith(pos, day, strMath, RatOfInt(50))

SpecStreak == Init /\ [][NextStreak]_vars

\* Histories of up to MaxOrderLen reports of either subject
ReportKinds == {<<strMath, RatOfInt(50)>>, <<strScience, RatOfInt(100)>>}

NextOrder ==
    \E pos \in 1..MaxOrderLen, day \in 0..(OrderDays - 1), kind \in ReportKinds :
        /\ Len(reports) < MaxOrderLen
        /\ evaluateWith(pos, day, kind[1], kind[2])

SpecOrder == Init /\ [][NextOrder]_vars

\* Histories of up to MaxSpringLen reports taken from Thursday 9 March 2023
\* on, for SpringDays days, at any tick of a day, newest first: the clock
\* is put forward in the night of the fourth day.  The test taken at
\* midnight is a Math test scored 50, a later one a Science test scored 100
SpringDays == 8
MaxSpringLen == 6

SpringFirstTick == DayNumber(3, 9) * TicksPerDay
SpringLastTick == (DayNumber(3, 9) + SpringDays) * TicksPerDay - 1

springSubject(t) == IF timeOfDay(t) = 0 THEN strMath ELSE strScience
springScore(t) == IF timeOfDay(t) = 0 THEN RatOfInt(50) ELSE RatOfInt(100)

evaluateAt(t) ==
    /\ Len(reports) < MaxSpringLen
    /\ reports # <<>> => t > reports[1].date
    /\ reports' = <<[date |-> t, subject |-> springSubject(t), score |-> springScore(t),
                     id |-> t]>> \o reports
    /\ badges' = checkAllBadges(reports')
    /\ UNCHANGED <<now, currentView, testResult, goals, currentTest, testAnswers,
                   feedbackPref, isLoading, grading>>

NextSpring == \E t \in SpringFirstTick..SpringLastTick : evaluateAt(t)

SpecSpring == Init /\ [][NextSpring]_vars

\* Histories of up to MaxCatalogLen reports, one every other day from
\* 1 January on, newest first, of subjects that contain 'math' or 'science'
\* in either case or neither of them
MaxCatalogLen == 5

CatalogKinds ==
    {<<strMath, RatOfInt(50)>>, <<strMaths, RatOfInt(50)>>, <<strScience, RatOfInt(50)>>,
     <<strAny, RatOfInt(50)>>, <<strAny, RatOfInt(100)>>}

NextCatalog ==
    \E kind \in CatalogKinds :
        /\ Len(reports) < MaxCatalogLen
        /\ evaluateWith(1, 2 * Len(reports), kind[1], kind[2])

SpecCatalog == Init /\ [][NextCatalog]_vars



--------------------------------------------------------------------------
(* Properties of the progress orchestrator and the goal tracker *)

Ticks == FirstTick..LastTick

\* C3: no step of the session removes an id from userProfile.badges.
C3_BadgesNeverShrink == [][badges \subseteq badges']_vars

StreakBadge == "streak_5_day"
Jan1to8 == DayNumber(1, 1)..DayNumber(1, 8)
Jan4 == DayNumber(1, 4)

\* C11 as stated: with test days Jan 1, 2, 3, 5, 6, 7, 8 the longest run is
\* 4 and streak_5_day is not returned; with Jan 4 as well the longest run
\* is 7 and streak_5_day is returned.
C11_StreakScenario ==
    /\ daysOf(reports) = Jan1to8 \ {Jan4} =>
          /\ maxStreakOf(uniqueDayTimestamps(reports)) = 4
          /\ StreakBadge \notin badges
    /\ daysOf(reports) = Jan1to8 =>
          /\ maxStreakOf(uniqueDayTimestamps(reports)) = 7
          /\ StreakBadge \in badges

\* C11 as amended: the same, the longest run with Jan 4 being the 8 days
\* Jan 1 to Jan 8.
C11_StreakScenarioRunOf8 ==
    /\ daysOf(reports) = Jan1to8 \ {Jan4} =>
          /\ maxStreakOf(uniqueDayTimestamps(reports)) = 4
          /\ StreakBadge \notin badges
    /\ daysOf(reports) = Jan1to8 =>
          /\ maxStreakOf(uniqueDayTimestamps(reports)) = 8
          /\ StreakBadge \in badges

\* the report of Jan 4 has just been added to the seven others, which were
\* stored newest first
C11_Witness ==
    /\ daysOf(reports) = Jan1to8
    /\ dayOf(reports[1].date) = Jan4
    /\ \A i \in 2..(Len(reports) - 1) : reports[i].date > reports[i + 1].date
    /\ StreakBadge \in badges

swapped(list, i, j) == [list EXCEPT ![i] = list[j], ![j] = list[i]]

\* C16: the set checkAllBadges returns is the same for a history and for
\* the history with any two of its reports exchanged (every permutation is
\* a product of such exchanges, and every order of a history is reached),
\* and evaluating the same history again returns the same set.
C16_OrderIndependent ==
    /\ badges = checkAllBadges(reports)
    /\ \A i, j \in DOMAIN reports :
          checkAllBadges(swapped(reports, i, j)) = badges

\* five consecutive days stored neither ascending nor descending, with the
\* streak badge and the perfect-score badge earned
C16_Witness ==
    /\ Len(reports) = 5
    /\ reports[1].date < reports[2].date
    /\ reports[2].date > reports[3].date
    /\ badges = {"first_test", "perfect_score", StreakBadge, "math_whiz"}

\* The calendar days with a report include 5 consecutive ones
fiveDayRun(rs) == \E d \in daysOf(rs) : \A k \in 1..4 : (d + k) \in daysOf(rs)

\* C24: checkAllBadges returns streak_5_day exactly when the calendar days
\* that hold at least one report include a run of 5 consecutive days; the
\* reports of one day count once.
C24_StreakIffFiveDayRun ==
    /\ reports # <<>> => badges = checkAllBadges(reports)
    /\ StreakBadge \in checkAllBadges(reports) <=> fiveDayRun(reports)

\* The same for the histories of SpecStreak and SpecOrder, dated in
\* January, when no clock change falls between two of the days: there the
\* rule holds
C24_StreakIffFiveDayRunInJanuary ==
    (\A i \in DOMAIN reports : dayOf(reports[i].date) < DstFirstDay) =>
        (StreakBadge \in checkAllBadges(reports) <=> fiveDayRun(reports))

\* The reports that may be added to the stored history: a Math, a Science
\* or another test at any tick of the spring days that holds no report yet
addableReports ==
    {[date |-> t, subject |-> kind[1], score |-> kind[2], id |-> t] :
        t \in {u \in SpringFirstTick..SpringLastTick : ~hasReport(reports, u)},
        kind \in ReportKinds \cup {<<strAny, RatOfInt(50)>>}}

\* C29: every id checkAllBadges returns for the stored history it returns
\* for the history with any one report added, older or newer, on a day
\* with or without a report; and no step that adds a report removes an id
\* from the set checkAllBadges returns.
C29_Monotone ==
    /\ [](\A r \in addableReports :
              checkAllBadges(reports) \subseteq checkAllBadges(<<r>> \o reports))
    /\ [][checkAllBadges(reports) \subseteq checkAllBadges(reports')]_vars

\* a history with a five-day run, three Math tests and a perfect score, to
\* which a third Science report can be added
C29_Witness ==
    /\ {StreakBadge, "math_whiz", "perfect_score"} \subseteq badges
    /\ badges = checkAllBadges(reports)
    /\ "science_genius" \notin badges
    /\ \E r \in addableReports : "science_genius" \in checkAllBadges(<<r>> \o reports)

BadgeIds == {"first_test", "perfect_score", StreakBadge, "math_whiz", "science_genius"}

\* The subjects that contain 'math', and 'science', whatever the case
MathSubjects == {strMath, strMaths}
ScienceSubjects == {strScience}

countOf(S) == Cardinality({i \in DOMAIN reports : reports[i].subject \in S})

\* C23: checkAllBadges returns catalog ids only; first_test iff the history
\* is not empty, perfect_score iff some report has score 100, math_whiz iff
\* at least 3 reports have a subject containing 'math' in any case,
\* science_genius iff at least 3 have one containing 'science'; the empty
\* history yields the empty set.
C23_CatalogRules ==
    LET earned == checkAllBadges(reports)
    IN  /\ badges = earned \/ reports = <<>>
        /\ earned \subseteq BadgeIds
        /\ "first_test" \in earned <=> reports # <<>>
        /\ "perfect_score" \in earned
               <=> \E i \in DOMAIN reports : reports[i].score = RatOfInt(100)
        /\ "math_whiz" \in earned <=> countOf(MathSubjects) >= 3
        /\ "science_genius" \in earned <=> countOf(ScienceSubjects) >= 3
        /\ reports = <<>> => earned = {}

\* "Math", "maths" and "Math" make math_whiz, a score of 100 in another
\* subject makes perfect_score, and one Science report does not make
\* science_genius
C23_Witness ==
    /\ Len(reports) = 5
    /\ countOf({strMath}) = 2
    /\ countOf({strMaths}) = 1
    /\ countOf(ScienceSubjects) = 1
    /\ \E i \in DOMAIN reports :
          reports[i].subject = strAny /\ reports[i].score = RatOfInt(100)
    /\ badges = {"first_test", "perfect_score", "math_whiz"}

\* C26: after a saveReport that appends a report, every id checkAllBadges
\* returns for the history is among the stored badges.
C26_QualifiedBadgesStored ==
    [][ Len(reports') = Len(reports) + 1 => checkAllBadges(reports') \subseteq badges' ]_vars

\* a report has just been saved without a new badge, the profile holding a
\* badge the history left after a deletion does not qualify for
C26_Witness ==
    /\ currentView = "results"
    /\ reports # <<>>
    /\ testResult = <<reports[1]>>
    /\ checkAllBadges(reports) # {}
    /\ checkAllBadges(reports) \subseteq badges
    /\ checkAllBadges(reports) # badges
    /\ Len(reports) >= 2

\* C4: a stored goal that is completed is never active afterwards.  A step
\* keeps the goal list's length (saveReport), prepends one goal (addGoal)
\* or removes the goals of one id (deleteGoal).
C4_StatusMonotonic ==
    [][ \/ /\ Len(goals') = Len(goals)
           /\ \A i \in DOMAIN goals :
                 /\ goals'[i].id = goals[i].id
                 /\ goals[i].status = Completed => goals'[i].status = Completed
        \/ /\ Len(goals') = Len(goals) + 1
           /\ \A i \in DOMAIN goals :
                 /\ goals'[i + 1].id = goals[i].id
                 /\ goals[i].status = Completed => goals'[i + 1].status = Completed
        \/ /\ Len(goals') < Len(goals)
           /\ \E i \in DOMAIN goals :
                 goals' = SelectSeq(goals, LAMBDA g : g.id # goals[i].id)
      ]_vars

\* a goal completed by reaching its target whose window is still open and
\* whose value, recomputed from the history left after deletions, is below
\* the target, right after a saveReport
C4_Witness ==
    /\ goals # <<>>
    /\ goals[1].status = Completed
    /\ ~(now > timeframeEndDate(goals[1], now))
    /\ RatLE(RatOfInt(goals[1].targetValue), goals[1].currentValue)
    /\ goals[1].type = Completion
    /\ RatLT(completionValue(goals[1], reports, now), RatOfInt(goals[1].targetValue))
    /\ currentView = "results"
    /\ reports # <<>>
    /\ testResult = <<reports[1]>>

\* C5: after a report is deleted, every stored active goal's currentValue
\* is the value the tracker computes from the remaining history.
C5_DeleteReevaluatesGoals ==
    [][ Len(reports') < Len(reports) =>
            \A i \in DOMAIN goals' :
                goals'[i].status = Active =>
                    goals'[i].currentValue = updateGoal(goals'[i], reports', now').currentValue
      ]_vars

\* C15: saveReport invoked for a test result whose id is in the history
\* already leaves the history, the goals and the badges as they are, and
\* no two stored reports have the same id.
C15_SaveReportIdempotent ==
    /\ noDuplicates([i \in DOMAIN reports |-> reports[i].id])
    /\ (testResult # None /\ \E i \in DOMAIN reports : reports[i].id = testResult[1].id)
          => saveReportOutcome(reports, goals, badges, testResult[1], now)
                = [reports |-> reports, goals |-> goals, badges |-> badges]

\* the results view of a saved test, left open until the window of an
\* active goal has ended: the trackers, run again, would change the goal
C15_Witness ==
    /\ currentView = "results"
    /\ testResult # None
    /\ reports # <<>>
    /\ reports[1] = testResult[1]
    /\ goals # <<>>
    /\ goals[1].status = Active
    /\ now > timeframeEndDate(goals[1], now)

\* C14: updateGoalProgress applied to its own result, with the same history
\* and at the same time, returns that result.
C14_UpdateGoalProgressIdempotent ==
    LET once == updateGoalProgress(goals, reports, now)
    IN  updateGoalProgress(once, reports, now) = once

\* stored goals that a run of the tracker changes: an active goal is
\* completed by it
C14_Witness ==
    /\ goals # <<>>
    /\ goals[1].status = Active
    /\ updateGoalProgress(goals, reports, now)[1].status = Completed
    /\ updateGoalProgress(goals, reports, now)[1].currentValue # goals[1].currentValue

\* The fields of a goal other than currentValue and status
frameOf(g) ==
    [id |-> g.id, type |-> g.type, subject |-> g.subject, targetValue |-> g.targetValue,
     timeframe |-> g.timeframe, startDate |-> g.startDate]

\* C25: updateGoalProgress returns a list of the same length whose goal at
\* each position has the id, type, subject, targetValue, timeframe and
\* startDate of the input goal at that position; and every step of the
\* session keeps these fields of every stored goal it keeps: it keeps the
\* list's length (saveReport), prepends one goal (addGoal) or removes the
\* goals of one id (deleteGoal).
C25_OnlyValueAndStatusChange ==
    [][ /\ LET out == updateGoalProgress(goals, reports, now)
            IN  /\ Len(out) = Len(goals)
                /\ \A i \in DOMAIN goals : frameOf(out[i]) = frameOf(goals[i])
        /\ \/ /\ Len(goals') = Len(goals)
               /\ \A i \in DOMAIN goals : frameOf(goals'[i]) = frameOf(goals[i])
           \/ /\ Len(goals') = Len(goals) + 1
               /\ goals'[1].startDate = now
               /\ \A i \in DOMAIN goals : frameOf(goals'[i + 1]) = frameOf(goals[i])
           \/ /\ Len(goals') < Len(goals)
               /\ \E i \in DOMAIN goals :
                     goals' = SelectSeq(goals, LAMBDA g : g.id # goals[i].id)
      ]_vars

\* two stored goals, the newer one completed and the older one active with
\* a value the tracker has raised, evaluated again on a later day
C25_Witness ==
    /\ Len(goals) = 2
    /\ goals[1].status = Completed
    /\ goals[2].status = Active
    /\ goals[2].currentValue = RatOfInt(1)
    /\ goals[1].startDate > goals[2].startDate
    /\ goals[1].targetValue < goals[2].targetValue
    /\ dayOf(now) > dayOf(goals[2].startDate)
    /\ Len(reports) = 2

\* C9: the window of a stored goal is the same at whatever time the goal is
\* evaluated, and it contains the goal's startDate.
C9_WindowFixedByStartDate ==
    \A i \in DOMAIN goals :
        LET goal == goals[i]
            windowStart == timeframeStartDate(goal, goal.startDate)
            windowEnd == timeframeEndDate(goal, goal.startDate)
        IN  /\ \A t \in Ticks :
                  /\ timeframeStartDate(goal, t) = windowStart
                  /\ timeframeEndDate(goal, t) = windowEnd
            /\ windowStart <= goal.startDate
            /\ goal.startDate < windowEnd

\* a week goal created in the middle of its week, still active at the very
\* end of its window, when the current week is already the next one
C9_Witness ==
    /\ goals # <<>>
    /\ goals[1].timeframe = Week
    /\ goals[1].status = Active
    /\ timeframeStartDate(goals[1], now) < goals[1].startDate
    /\ now = timeframeEndDate(goals[1], now)
    /\ getStartDate(Week, now) # timeframeStartDate(goals[1], now)

\* The improvement value of goal g over the stored history, from the
\* definition: the subject-matching reports before startDate are the
\* baseline, those in [windowStart, windowEnd) the window sample
windowStartOf(g) == getStartDate(g.timeframe, g.startDate)
windowEndOf(g) == getEndDate(g.timeframe, windowStartOf(g))
matchingReports(g) == {i \in DOMAIN reports : subjectMatch(g, reports[i])}
baselineOf(g) == {i \in matchingReports(g) : reports[i].date < g.startDate}
inWindowOf(g) ==
    LET ws == windowStartOf(g)
        we == windowEndOf(g)
    IN  {i \in matchingReports(g) : ws <= reports[i].date /\ reports[i].date < we}

RECURSIVE scoreSum(_)
scoreSum(S) ==
    IF S = {} THEN Zero
    ELSE LET x == CHOOSE y \in S : TRUE IN RatAdd(reports[x].score, scoreSum(S \ {x}))

meanScore(S) == IF S = {} THEN Zero ELSE RatDivInt(scoreSum(S), Cardinality(S))

expectedImprovement(g) ==
    LET inWindow == inWindowOf(g)
    IN  IF inWindow = {} THEN Zero
        ELSE RatMax(Zero, RatSub(meanScore(inWindow), meanScore(baselineOf(g))))

\* The number of stored reports that match goal g's subject filter and are
\* dated in [windowStart, windowEnd)
expectedCompletion(g) == RatOfInt(Cardinality(inWindowOf(g)))

expectedValue(g) ==
    IF g.type = Completion THEN expectedCompletion(g) ELSE expectedImprovement(g)

belowTarget(g) == RatLT(g.currentValue, RatOfInt(g.targetValue))

\* C27: a stored goal that is completed with currentValue below targetValue
\* is past its windowEnd, and the step in which a goal became completed
\* with such a value was taken after its windowEnd; no goal is created
\* completed with such a value.
C27_CompletedBelowTargetExpired ==
    [][ /\ \A i \in DOMAIN goals :
              (goals[i].status = Completed /\ belowTarget(goals[i]))
                  => now > windowEndOf(goals[i])
        /\ LET k == Len(goals') - Len(goals)
           IN  k \in {0, 1} =>
                 \A j \in DOMAIN goals' :
                     (/\ goals'[j].status = Completed
                      /\ belowTarget(goals'[j])
                      /\ (j <= k \/ goals[j - k].status = Active))
                         => now' > windowEndOf(goals'[j])
      ]_vars

\* a goal with some progress below its target, completed when a report was
\* saved after the end of its window
C27_Witness ==
    /\ goals # <<>>
    /\ goals[1].status = Completed
    /\ belowTarget(goals[1])
    /\ RatLT(Zero, goals[1].currentValue)
    /\ now > windowEndOf(goals[1])
    /\ currentView = "results"
    /\ reports # <<>>
    /\ testResult = <<reports[1]>>
    /\ reports[1].date > windowEndOf(goals[1])

staleGoal(g, nowT) == g.status = Active /\ windowEndOf(g) < nowT

otherHistories ==
    {reports, <<>>}
        \cup {SelectSeq(reports, LAMBDA r : r.id # reports[i].id) : i \in DOMAIN reports}

\* C30: updateGoalProgress returns an active goal evaluated after its
\* windowEnd with status completed and every other field, currentValue
\* included, as stored, and a completed goal as it is, whatever the report
\* history; and a step that stores the result changes such goals in no
\* other way.
C30_ExpiryKeepsStoredValue ==
    /\ [](\A i \in DOMAIN goals, rs \in otherHistories :
              LET out == updateGoal(goals[i], rs, now)
              IN  /\ (goals[i].status = Active /\ now > windowEndOf(goals[i]))
                        => out = [goals[i] EXCEPT !.status = Completed]
                  /\ goals[i].status = Completed => out = goals[i])
    /\ [][ LET k == Len(goals') - Len(goals)
           IN  k \in {0, 1} =>
                 \A i \in DOMAIN goals :
                     /\ goals[i].status = Completed => goals'[i + k] = goals[i]
                     /\ (goals[i].status = Active /\ now' > windowEndOf(goals[i]))
                           => \/ goals'[i + k] = goals[i]
                              \/ goals'[i + k] = [goals[i] EXCEPT !.status = Completed]
         ]_vars

\* a goal completed by expiry when a report was saved after its window,
\* with the value stored before a report of its window was deleted: the
\* value is not the one the remaining history gives
C30_Witness ==
    /\ goals # <<>>
    /\ goals[1].status = Completed
    /\ now > windowEndOf(goals[1])
    /\ belowTarget(goals[1])
    /\ RatLT(expectedValue(goals[1]), goals[1].currentValue)
    /\ currentView = "results"
    /\ reports # <<>>
    /\ testResult = <<reports[1]>>

\* C17: updateGoalProgress returns an active goal as completed exactly when
\* now is strictly past windowEnd or the recomputed currentValue is at
\* least targetValue, and as active otherwise.
C17_CompletedIffExpiredOrReached ==
    \A i \in DOMAIN goals :
        goals[i].status = Active =>
            LET out == updateGoal(goals[i], reports, now)
                reached == RatLE(RatOfInt(goals[i].targetValue), expectedValue(goals[i]))
            IN  /\ out.status \in {Active, Completed}
                /\ out.status = Completed <=> (now > windowEndOf(goals[i]) \/ reached)

\* an active goal past its window with its target not reached
C17_Witness ==
    /\ goals # <<>>
    /\ goals[1].status = Active
    /\ now > windowEndOf(goals[1])
    /\ RatLT(expectedValue(goals[1]), RatOfInt(goals[1].targetValue))
    /\ updateGoal(goals[1], reports, now).status = Completed

\* The pairs <<goal subject, report subject>> of which the first is a
\* case-insensitive substring of the second
SubstringPairs == {<<strMath, strMath>>, <<strMath, strMaths>>, <<strMaths, strMaths>>}

expectedMatch(g, r) == g.subject = strAny \/ <<g.subject, r.subject>> \in SubstringPairs

countedReports(g) ==
    {i \in DOMAIN reports :
        /\ expectedMatch(g, reports[i])
        /\ windowStartOf(g) <= reports[i].date
        /\ reports[i].date < windowEndOf(g)}

\* C18: for an active completion goal whose window has not expired the
\* value updateGoalProgress returns is the number of reports that match
\* the subject filter and are dated in [windowStart, windowEnd).
C18_CompletionCountsWindow ==
    \A i \in DOMAIN goals :
        (/\ goals[i].type = Completion
         /\ goals[i].status = Active
         /\ ~(now > windowEndOf(goals[i]))) =>
            updateGoal(goals[i], reports, now).currentValue
                = RatOfInt(Cardinality(countedReports(goals[i])))

\* a "Math" goal evaluated at the last instant of its window: a "maths"
\* report inside the window is counted, the report dated at windowEnd is
\* not
C18_Witness ==
    /\ goals[1].subject = strMath
    /\ goals[1].status = Active
    /\ now = windowEndOf(goals[1])
    /\ Len(reports) = 2
    /\ \E j, k \in DOMAIN reports :
          /\ reports[j].subject = strMaths
          /\ reports[j].date < windowEndOf(goals[1])
          /\ reports[k].date = windowEndOf(goals[1])
    /\ goals[1].currentValue = RatOfInt(1)

\* The reports dated in goal g's window are three, dated on the Tuesday,
\* the Wednesday and the Thursday
inWeek(g) ==
    {i \in DOMAIN reports :
        windowStartOf(g) <= reports[i].date /\ reports[i].date < windowEndOf(g)}

threeLanded(g) ==
    /\ Cardinality(inWeek(g)) = 3
    /\ {getDay(reports[i].date) : i \in inWeek(g)} = {2, 3, 4}

\* C13 as stated: once the three Math reports of Tuesday, Wednesday and
\* Thursday are saved, the goal has currentValue 3 and is completed (a
\* fourth report, of the following week, changes nothing).
C13_ThreeReportsComplete ==
    (goals # <<>> /\ threeLanded(goals[1])) =>
        /\ goals[1].currentValue = RatOfInt(3)
        /\ goals[1].status = Completed

\* C13 as amended: the same when the three reports are saved no later than
\* the end of the goal's week; and a report dated in the following week,
\* saved afterwards, leaves currentValue at 3.
C13_ThreeReportsSavedInTime ==
    [][ goals' # <<>> =>
          /\ (threeLanded(goals[1])' /\ now' <= windowEndOf(goals'[1])) =>
                /\ goals'[1].currentValue = RatOfInt(3)
                /\ goals'[1].status = Completed
          /\ (/\ goals # <<>>
              /\ goals[1].currentValue = RatOfInt(3)
              /\ Len(reports') = Len(reports) + 1
              /\ reports'[1].date >= windowEndOf(goals[1])) =>
                goals'[1].currentValue = RatOfInt(3)
      ]_vars

\* the goal was added on the Wednesday after the Tuesday report was taken,
\* the three reports completed it, and a fourth report of the following
\* week is stored
C13_Witness ==
    /\ goals # <<>>
    /\ threeLanded(goals[1])
    /\ getDay(goals[1].startDate) = 3
    /\ \E i \in inWeek(goals[1]) : reports[i].date < goals[1].startDate
    /\ Len(reports) = 4
    /\ reports[1].date >= windowEndOf(goals[1])
    /\ goals[1].currentValue = RatOfInt(3)
    /\ goals[1].status = Completed

\* C19: for an improvement goal no report is both in the baseline sample
\* and in the in-window sample of updateGoalProgress.
C19_BaselineAndWindowDisjoint ==
    \A i \in DOMAIN goals :
        goals[i].type = Improvement =>
            LET baseline == baselineReports(goals[i], reports)
                progress == progressReports(goals[i], reports, now)
            IN  \A j \in DOMAIN baseline, k \in DOMAIN progress :
                    baseline[j].id # progress[k].id

\* C10 as stated: for every improvement goal the value updateGoalProgress
\* returns is never negative, 0 without an in-window matching report, and
\* max(0, windowAvg - baselineAvg) otherwise.
C10_EveryImprovementGoal ==
    \A i \in DOMAIN goals :
        goals[i].type = Improvement =>
            LET out == updateGoal(goals[i], reports, now)
            IN  /\ RatLE(Zero, out.currentValue)
                /\ out.currentValue = expectedImprovement(goals[i])

\* C10 as amended: the same, for the improvement goals updateGoalProgress
\* recomputes: active on input and evaluated no later than their windowEnd.
C10_RecomputedImprovementGoal ==
    \A i \in DOMAIN goals :
        (/\ goals[i].type = Improvement
         /\ goals[i].status = Active
         /\ ~(now > timeframeEndDate(goals[i], now))) =>
            LET out == updateGoal(goals[i], reports, now)
            IN  /\ RatLE(Zero, out.currentValue)
                /\ out.currentValue = expectedImprovement(goals[i])

\* an active improvement goal whose window average is below its baseline:
\* the stored value is 0, not the negative difference
C10_Witness ==
    /\ goals # <<>>
    /\ goals[1].type = Improvement
    /\ goals[1].status = Active
    /\ ~(now > timeframeEndDate(goals[1], now))
    /\ inWindowOf(goals[1]) # {}
    /\ baselineOf(goals[1]) # {}
    /\ RatLT(improvementValue(goals[1], reports, now), Zero)
    /\ goals[1].currentValue = Zero
    /\ updateGoal(goals[1], reports, now).currentValue = Zero


====
